---- MODULE Spec2Model ----
(***************************************************************************)
(* Silent Lease -- auth and shared logic (src/unnamed/part_000).           *)
(*                                                                         *)
(* The browser's localStorage is the whole state of the program.  Its five *)
(* key families are the variables users, current, quiz, tasks and appState *)
(* (the last three are indexed by the per-user storage suffix).  A stored  *)
(* text is modelled by the JSON value it denotes together with a flag that *)
(* says whether JSON.parse accepts it.  JavaScript strings are sequences   *)
(* of one-character strings; every other JavaScript value is a one-element *)
(* sequence holding a token (<<"null">>, <<"true">>, <<"{quiz1}">>, ...).  *)
(***************************************************************************)
EXTENDS Integers, Sequences, FiniteSets, TLC

VARIABLES users, current, quiz, tasks, appState, call

vars == <<users, current, quiz, tasks, appState, call>>

-----------------------------------------------------------------------------
(* Storage keys                                                            *)

STORAGE_USERS == "silentlease_users"

STORAGE_CURRENT == "silentlease_current"

STORAGE_QUIZ == "silentlease_exitPlanData"

STORAGE_TASKS == "silentlease_tasks"

STORAGE_APP_STATE == "silentlease_appState"

\* No setItem call of the operation is rejected by the storage.
NoFault == "none"

-----------------------------------------------------------------------------
(* JavaScript values                                                       *)

Undefined == <<"undefined">>

Null == <<"null">>

True == <<"true">>

False == <<"false">>

\* The empty object literal {}.
EmptyObject == <<"{}">>

\* A property that the object does not have.
Absent == <<"absent">>

\* ToBoolean, on the values the model holds: undefined, null, false and the
\* empty string are falsy, every object and every non-empty string is truthy.
Truthy(v) == v \notin {Undefined, Null, False, <<>>, Absent}

\* a || b
Or(a, b) == IF Truthy(a) THEN a ELSE b

\* obj.f : a missing property reads as undefined
Get(obj, f) == IF obj[f] = Absent THEN Undefined ELSE obj[f]

\* v != null (loose): neither null nor undefined
NotNullish(v) == v \notin {Null, Undefined, Absent}

-----------------------------------------------------------------------------
(* Strings                                                                 *)

UpperCase == <<"A", "B", "C", "D", "E", "F", "G", "H", "I", "J", "K", "L", "M",
               "N", "O", "P", "Q", "R", "S", "T", "U", "V", "W", "X", "Y", "Z">>

LowerCase == <<"a", "b", "c", "d", "e", "f", "g", "h", "i", "j", "k", "l", "m",
               "n", "o", "p", "q", "r", "s", "t", "u", "v", "w", "x", "y", "z">>

Digits == <<"0", "1", "2", "3", "4", "5", "6", "7", "8", "9">>

Range(s) == {s[i] : i \in DOMAIN s}

\* \s of the regular expressions
WhiteSpace == {" "}

UpperCaseLetters == Range(UpperCase)

DigitChars == Range(Digits)

toLowerCaseChar(c) ==
  IF c \in UpperCaseLetters
    THEN LowerCase[CHOOSE i \in DOMAIN UpperCase : UpperCase[i] = c]
    ELSE c

toLowerCase(s) == [i \in 1..Len(s) |-> toLowerCaseChar(s[i])]

trim(s) ==
  LET keep == {i \in 1..Len(s) : s[i] \notin WhiteSpace}
  IN IF keep = {} THEN <<>>
     ELSE LET first == CHOOSE i \in keep : \A j \in keep : i <= j
              last == CHOOSE i \in keep : \A j \in keep : j <= i
          IN SubSeq(s, first, last)

\* /^[^\s@]+@[^\s@]+\.[^\s@]+$/ : one "@" at position i, a "." at position j
\* with at least one character before the "@", between "@" and ".", and after
\* the "."; no other "@" and no white space anywhere.
isValidEmail(email) ==
  \E i, j \in 1..Len(email) :
    /\ email[i] = "@"
    /\ email[j] = "."
    /\ 1 < i
    /\ i + 1 < j
    /\ j < Len(email)
    /\ \A k \in 1..Len(email) :
         k # i => (email[k] # "@" /\ email[k] \notin WhiteSpace)

MinPasswordLength == 8

\* The check with the comparison off by one.
isValidPassword_strict(password) == Truthy(password) /\ Len(password) > MinPasswordLength

isValidPassword(password) == Truthy(password) /\ Len(password) >= MinPasswordLength

MinPhoneDigits == 10

MaxPhoneDigits == 15

\* phone.replace(/\D/g, '').length
DigitCount(s) == Cardinality({i \in 1..Len(s) : s[i] \in DigitChars})

isValidPhone(phone) ==
  IF ~Truthy(phone) \/ ~Truthy(trim(phone)) THEN TRUE
  ELSE DigitCount(phone) >= MinPhoneDigits /\ DigitCount(phone) <= MaxPhoneDigits

\* The characters that replace(/[^a-zA-Z0-9@._-]/g, '_') keeps.
SuffixChars ==
  Range(LowerCase) \cup UpperCaseLetters \cup DigitChars \cup {"@", ".", "_", "-"}

sanitize(s) == [i \in 1..Len(s) |-> IF s[i] \in SuffixChars THEN s[i] ELSE "_"]

-----------------------------------------------------------------------------
(* JSON and the stored texts                                               *)

\* The text JSON.stringify produces for a value: it parses back to the value.
\* JSON.stringify(undefined) is undefined, which setItem stores as the text
\* "undefined", and JSON.parse rejects that text.
Item(v) == [parses |-> v # Undefined, value |-> v]

\* JSON.stringify of an object leaves out the properties that are undefined.
JSONstringifyObject(obj) ==
  [parses |-> TRUE,
   value |-> [f \in DOMAIN obj |-> IF obj[f] = Undefined THEN Absent ELSE obj[f]]]

\* JSON.stringify of the user directory, an object of user objects.
JSONstringifyUsers(dir) ==
  [parses |-> TRUE,
   value |-> [k \in DOMAIN dir |-> JSONstringifyObject(dir[k]).value]]

\* The user directory {} : no keys.
NoUsers == [k \in {} |-> Absent]

-----------------------------------------------------------------------------
(* Error messages                                                          *)

ErrDuplicateEmail == "An account with this email already exists."

ErrInvalidEmail == "Please enter a valid email address."

ErrWeakPassword == "Password must be at least 8 characters."

\* The source writes the range with an en dash.
ErrInvalidPhoneRegister == "Please enter a valid phone number (10-15 digits)."

ErrUnknownEmail == "No account found with this email address."

ErrWrongPassword == "The password you entered is incorrect."

ErrNotLoggedIn == "Not logged in."

ErrEmailTaken == "This email is already taken by another account."

ErrInvalidPhoneUpdate == "Please enter a valid phone number."

NoError == ""

\* What the last call was and how it ended: caller is the text stored under
\* STORAGE_CURRENT when the call began; result is "success" or "failure" for
\* {success: ...}, "true" or "false" for a boolean, "void" for a call that
\* returns nothing, and "throw" when an exception left the function.
Call(op, args, fault, result, error) ==
  [op |-> op, args |-> args, fault |-> fault, result |-> result, error |-> error,
   caller |-> current]

-----------------------------------------------------------------------------
(* User directory and session                                              *)

\* getUsers, on the text u stored under STORAGE_USERS
getUsersOf(u) == IF u # <<>> /\ u[1].parses THEN u[1].value ELSE NoUsers

getUsers == getUsersOf(users)

\* getCurrentUser, on the text cur stored under STORAGE_CURRENT: the session
\* object, as a sequence of length at most one.
getCurrentUserOf(cur) ==
  IF cur # <<>> /\ cur[1].parses /\ Truthy(Get(cur[1].value, "isLoggedIn"))
    THEN <<cur[1].value>>
    ELSE <<>>

getCurrentUser == getCurrentUserOf(current)

getStorageSuffixOf_oneSuffix(cur) ==
  IF /\ cur # <<>>
     /\ cur[1].parses
     /\ Truthy(Get(cur[1].value, "isLoggedIn"))
     /\ Truthy(Get(cur[1].value, "email"))
    THEN <<"_">>
    ELSE <<>>

getStorageSuffixOf(cur) ==
  IF /\ cur # <<>>
     /\ cur[1].parses
     /\ Truthy(Get(cur[1].value, "isLoggedIn"))
     /\ Truthy(Get(cur[1].value, "email"))
    THEN <<"_">> \o sanitize(cur[1].value.email)
    ELSE <<>>

getStorageSuffix == getStorageSuffixOf(current)

\* new Date().toISOString(): different instants give different strings.
toISOString(now) == <<Digits[now + 1]>>

DefaultName == <<"U", "s", "e", "r">>

\* The object stored under STORAGE_CURRENT for the user object u.
SessionOf(email, name, phone, address, occupation) ==
  [email |-> email, name |-> name, phone |-> phone, address |-> address,
   occupation |-> occupation, isLoggedIn |-> True]

\* users[key] = rec
PutUser(dir, key, rec) ==
  [k \in DOMAIN dir \cup {key} |-> IF k = key THEN rec ELSE dir[k]]

\* A delete that leaves the key in place.
DeleteUser_keeps(dir, key) == dir

\* delete users[key]
DeleteUser(dir, key) == [k \in DOMAIN dir \ {key} |-> dir[k]]

\* The checks of register with a key that is not trimmed.
registerError_noTrim(dir, email, password, phone) ==
  IF toLowerCase(email) \in DOMAIN dir THEN ErrDuplicateEmail
  ELSE IF ~isValidEmail(email) THEN ErrInvalidEmail
  ELSE IF ~isValidPassword(password) THEN ErrWeakPassword
  ELSE IF ~isValidPhone(phone) THEN ErrInvalidPhoneRegister
  ELSE NoError

\* The checks of register, in the order of the code: the error message of
\* the first one that fails, NoError when all pass.
registerError(dir, email, password, phone) ==
  IF trim(toLowerCase(email)) \in DOMAIN dir THEN ErrDuplicateEmail
  ELSE IF ~isValidEmail(email) THEN ErrInvalidEmail
  ELSE IF ~isValidPassword(password) THEN ErrWeakPassword
  ELSE IF ~isValidPhone(phone) THEN ErrInvalidPhoneRegister
  ELSE NoError

\* The user object register builds.
NewUser(key, password, name, phone, address, occupation, now) ==
  [email |-> key,
   password |-> password,
   name |-> Or(trim(Or(name, DefaultName)), DefaultName),
   phone |-> trim(Or(phone, <<>>)),
   address |-> trim(Or(address, <<>>)),
   occupation |-> trim(Or(occupation, <<>>)),
   registeredAt |-> toISOString(now)]

register(email, password, name, phone, address, occupation, now, fault) ==
  LET dir == getUsers
      key == trim(toLowerCase(email))
      args == [email |-> email, password |-> password, name |-> name,
               phone |-> phone, address |-> address, occupation |-> occupation]
      error == registerError(dir, email, password, phone)
      rec == NewUser(key, password, name, phone, address, occupation, now)
  IN /\ UNCHANGED <<quiz, tasks, appState>>
     /\ IF error # NoError
          THEN /\ call' = Call("register", args, fault, "failure", error)
               /\ UNCHANGED <<users, current>>
        ELSE IF fault = STORAGE_USERS
          THEN /\ call' = Call("register", args, fault, "throw", NoError)
               /\ UNCHANGED <<users, current>>
        ELSE /\ users' = <<JSONstringifyUsers(PutUser(dir, key, rec))>>
             /\ IF fault = STORAGE_CURRENT
                  THEN /\ call' = Call("register", args, fault, "throw", NoError)
                       /\ UNCHANGED current
                  ELSE /\ current' = <<JSONstringifyObject(
                              SessionOf(key, rec.name, rec.phone, rec.address,
                                        rec.occupation))>>
                       /\ call' = Call("register", args, fault, "success", NoError)

\* The checks of login without the password comparison.
loginError_noPassword(dir, email, password) ==
  IF trim(toLowerCase(email)) \notin DOMAIN dir THEN ErrUnknownEmail ELSE NoError

\* The checks of login.
loginError(dir, email, password) ==
  LET key == trim(toLowerCase(email))
  IN IF key \notin DOMAIN dir THEN ErrUnknownEmail
     ELSE IF Get(dir[key], "password") # password THEN ErrWrongPassword
     ELSE NoError

login(email, password, fault) ==
  LET dir == getUsers
      key == trim(toLowerCase(email))
      args == [email |-> email, password |-> password]
      error == loginError(dir, email, password)
  IN /\ UNCHANGED <<users, quiz, tasks, appState>>
     /\ IF error # NoError
          THEN /\ call' = Call("login", args, fault, "failure", error)
               /\ UNCHANGED current
        ELSE IF fault = STORAGE_CURRENT
          THEN /\ call' = Call("login", args, fault, "throw", NoError)
               /\ UNCHANGED current
        ELSE LET u == dir[key]
             IN /\ current' = <<JSONstringifyObject(
                       SessionOf(key, Get(u, "name"), Or(Get(u, "phone"), <<>>),
                                 Or(Get(u, "address"), <<>>),
                                 Or(Get(u, "occupation"), <<>>)))>>
                /\ call' = Call("login", args, fault, "success", NoError)

\* {...undefined} : the copy of a record that is not there has no property.
NoUser ==
  [email |-> Absent, password |-> Absent, name |-> Absent, phone |-> Absent,
   address |-> Absent, occupation |-> Absent, registeredAt |-> Absent]

\* The assignments of updateUserProfile to the user object.
ApplyUpdates(user, updates, newEmail) ==
  [email |-> newEmail,
   password |->
     IF Truthy(Get(updates, "password"))
        /\ Len(updates.password) >= MinPasswordLength
       THEN updates.password ELSE user.password,
   name |->
     IF Get(updates, "name") # Undefined
       THEN Or(trim(Or(updates.name, <<>>)), DefaultName) ELSE user.name,
   phone |->
     IF Get(updates, "phone") # Undefined
       THEN trim(Or(updates.phone, <<>>)) ELSE user.phone,
   address |->
     IF Get(updates, "address") # Undefined
       THEN trim(Or(updates.address, <<>>)) ELSE user.address,
   occupation |->
     IF Get(updates, "occupation") # Undefined
       THEN trim(Or(updates.occupation, <<>>)) ELSE user.occupation,
   registeredAt |-> user.registeredAt]

\* The key the session's record has after updateUserProfile.
NewEmail(cur, updates) == trim(toLowerCase(Or(Get(updates, "email"), cur.email)))

\* users[newEmail] = {...users[currentKey]}; delete users[currentKey]
MigrateUser(dir, currentKey, newEmail) ==
  DeleteUser(
    PutUser(dir, newEmail, IF currentKey \in DOMAIN dir THEN dir[currentKey] ELSE NoUser),
    currentKey)

TypeError == "TypeError"

\* The checks of updateUserProfile without the uniqueness check.
updateError_noTaken(cur, dir, updates) ==
  IF cur = <<>> THEN ErrNotLoggedIn
  ELSE
    LET currentKey == trim(toLowerCase(cur[1].email))
        newEmail == NewEmail(cur[1], updates)
        renamed == newEmail # currentKey
        badPhone == Get(updates, "phone") # Undefined /\ ~isValidPhone(updates.phone)
    IN IF renamed /\ ~isValidEmail(newEmail) THEN ErrInvalidEmail
       ELSE IF ~renamed /\ newEmail \notin DOMAIN dir
         THEN IF Get(updates, "name") = Undefined /\ badPhone
                THEN ErrInvalidPhoneUpdate ELSE TypeError
       ELSE IF badPhone THEN ErrInvalidPhoneUpdate
       ELSE NoError

\* The checks of updateUserProfile, in the order of the code: the error
\* message of the first one that fails, TypeError when the session's record
\* is missing and an assignment to it is reached, NoError when all pass.
updateError(cur, dir, updates) ==
  IF cur = <<>> THEN ErrNotLoggedIn
  ELSE
    LET currentKey == trim(toLowerCase(cur[1].email))
        newEmail == NewEmail(cur[1], updates)
        renamed == newEmail # currentKey
        badPhone == Get(updates, "phone") # Undefined /\ ~isValidPhone(updates.phone)
    IN IF renamed /\ ~isValidEmail(newEmail) THEN ErrInvalidEmail
       ELSE IF renamed /\ newEmail \in DOMAIN dir THEN ErrEmailTaken
       ELSE IF ~renamed /\ newEmail \notin DOMAIN dir
         THEN IF Get(updates, "name") = Undefined /\ badPhone
                THEN ErrInvalidPhoneUpdate ELSE TypeError
       ELSE IF badPhone THEN ErrInvalidPhoneUpdate
       ELSE NoError

updateUserProfile_savesEarly(updates, fault) ==
  LET cur == getCurrentUser
      dir == getUsers
      error == updateError(cur, dir, updates)
      throw ==
        /\ call' = Call("updateUserProfile", updates, fault, "throw", NoError)
        /\ UNCHANGED <<users, current>>
  IN /\ UNCHANGED <<quiz, tasks, appState>>
     /\ IF error = TypeError THEN throw
        ELSE IF error # NoError
          THEN /\ call' = Call("updateUserProfile", updates, fault, "failure", error)
               /\ users' =
                    IF error = ErrInvalidPhoneUpdate
                       /\ NewEmail(cur[1], updates) # trim(toLowerCase(cur[1].email))
                      THEN <<JSONstringifyUsers(
                               MigrateUser(dir, trim(toLowerCase(cur[1].email)),
                                           NewEmail(cur[1], updates)))>>
                      ELSE users
               /\ UNCHANGED current
        ELSE IF fault = STORAGE_USERS THEN throw
        ELSE
          LET currentKey == trim(toLowerCase(cur[1].email))
              newEmail == NewEmail(cur[1], updates)
              dir1 == IF newEmail # currentKey
                        THEN MigrateUser(dir, currentKey, newEmail) ELSE dir
              user == ApplyUpdates(dir1[newEmail], updates, newEmail)
          IN /\ users' = <<JSONstringifyUsers(PutUser(dir1, newEmail, user))>>
             /\ IF fault = STORAGE_CURRENT
                  THEN /\ call' = Call("updateUserProfile", updates, fault,
                                       "throw", NoError)
                       /\ UNCHANGED current
                  ELSE /\ current' = <<JSONstringifyObject(
                              SessionOf(newEmail, Get(user, "name"),
                                        Or(Get(user, "phone"), <<>>),
                                        Or(Get(user, "address"), <<>>),
                                        Or(Get(user, "occupation"), <<>>)))>>
                       /\ call' = Call("updateUserProfile", updates, fault,
                                       "success", NoError)

updateUserProfile(updates, fault) ==
  LET cur == getCurrentUser
      dir == getUsers
      error == updateError(cur, dir, updates)
      throw ==
        /\ call' = Call("updateUserProfile", updates, fault, "throw", NoError)
        /\ UNCHANGED <<users, current>>
  IN /\ UNCHANGED <<quiz, tasks, appState>>
     /\ IF error = TypeError THEN throw
        ELSE IF error # NoError
          THEN /\ call' = Call("updateUserProfile", updates, fault, "failure", error)
               /\ UNCHANGED <<users, current>>
        ELSE IF fault = STORAGE_USERS THEN throw
        ELSE
          LET currentKey == trim(toLowerCase(cur[1].email))
              newEmail == NewEmail(cur[1], updates)
              dir1 == IF newEmail # currentKey
                        THEN MigrateUser(dir, currentKey, newEmail) ELSE dir
              user == ApplyUpdates(dir1[newEmail], updates, newEmail)
          IN /\ users' = <<JSONstringifyUsers(PutUser(dir1, newEmail, user))>>
             /\ IF fault = STORAGE_CURRENT
                  THEN /\ call' = Call("updateUserProfile", updates, fault,
                                       "throw", NoError)
                       /\ UNCHANGED current
                  ELSE /\ current' = <<JSONstringifyObject(
                              SessionOf(newEmail, Get(user, "name"),
                                        Or(Get(user, "phone"), <<>>),
                                        Or(Get(user, "address"), <<>>),
                                        Or(Get(user, "occupation"), <<>>)))>>
                       /\ call' = Call("updateUserProfile", updates, fault,
                                       "success", NoError)

NoArgs == [none |-> Absent]

\* A logout that removes the session's quiz record as well.
logout_removesQuiz ==
  /\ current' = <<>>
  /\ call' = Call("logout", NoArgs, NoFault, "void", NoError)
  /\ quiz' = [s \in DOMAIN quiz \ {getStorageSuffixOf(current)} |-> quiz[s]]
  /\ UNCHANGED <<users, tasks, appState>>

logout ==
  /\ current' = <<>>
  /\ call' = Call("logout", NoArgs, NoFault, "void", NoError)
  /\ UNCHANGED <<users, quiz, tasks, appState>>

-----------------------------------------------------------------------------
(* Quiz, tasks and the combined app state                                  *)

\* An exit plan (the quiz answers, one JSON object).
Quiz1 == <<"{moveOutDate:1}">>

\* A task map with one completed task.
Tasks1 == <<"{send-notice:true}">>

\* typeof v === 'object' && v !== null, on the values the model holds
IsObject(v) == v \in {Quiz1, Tasks1, EmptyObject}

\* No item under any suffix.
NoItems == [s \in {} |-> Absent]

\* localStorage.setItem(base + suffix, item)
setItem(store, suffix, item) ==
  [s \in DOMAIN store \cup {suffix} |-> IF s = suffix THEN item ELSE store[s]]

getExitPlanDataOf(cur, q) ==
  LET suffix == getStorageSuffixOf(cur)
  IN IF suffix \in DOMAIN q /\ q[suffix].parses THEN q[suffix].value ELSE Null

getExitPlanData == getExitPlanDataOf(current, quiz)

getTasksOf(cur, t) ==
  LET suffix == getStorageSuffixOf(cur)
  IN IF suffix \in DOMAIN t /\ t[suffix].parses /\ IsObject(t[suffix].value)
       THEN t[suffix].value
       ELSE EmptyObject

getTasks == getTasksOf(current, tasks)

\* The object {} of getAppState when nothing is stored under the combined key.
NoState == [isPlanGenerated |-> Absent, exitPlanData |-> Absent, completedTasks |-> Absent]

DefaultState == [isPlanGenerated |-> False, exitPlanData |-> Null, completedTasks |-> EmptyObject]

\* {...a, ...b} : b's own properties win, an undefined one included.
Spread(a, b) == [f \in DOMAIN a |-> IF b[f] # Absent THEN b[f] ELSE a[f]]

getAppStateOf_noSpread(cur, q, t, a) ==
  LET suffix == getStorageSuffixOf(cur)
  IN IF suffix \in DOMAIN a /\ ~a[suffix].parses THEN DefaultState
     ELSE
       LET state == IF suffix \in DOMAIN a THEN a[suffix].value ELSE NoState
           exitPlan == getExitPlanDataOf(cur, q)
           tasksObj == getTasksOf(cur, t)
       IN Spread(
            [isPlanGenerated |->
               IF Truthy(Get(state, "isPlanGenerated")) \/ Truthy(exitPlan)
                 THEN True ELSE False,
             exitPlanData |-> Or(Or(Get(state, "exitPlanData"), exitPlan), Null),
             completedTasks |->
               Or(Or(Get(state, "completedTasks"), tasksObj), EmptyObject)],
            NoState)

getAppStateOf(cur, q, t, a) ==
  LET suffix == getStorageSuffixOf(cur)
  IN IF suffix \in DOMAIN a /\ ~a[suffix].parses THEN DefaultState
     ELSE
       LET state == IF suffix \in DOMAIN a THEN a[suffix].value ELSE NoState
           exitPlan == getExitPlanDataOf(cur, q)
           tasksObj == getTasksOf(cur, t)
       IN Spread(
            [isPlanGenerated |->
               IF Truthy(Get(state, "isPlanGenerated")) \/ Truthy(exitPlan)
                 THEN True ELSE False,
             exitPlanData |-> Or(Or(Get(state, "exitPlanData"), exitPlan), Null),
             completedTasks |->
               Or(Or(Get(state, "completedTasks"), tasksObj), EmptyObject)],
            state)

getAppState == getAppStateOf(current, quiz, tasks, appState)

\* A try block whose catch lets the exception out.
tryResult_rethrows(failed) == IF failed THEN "throw" ELSE "true"

\* try { ...; return true; } catch { return false; }
tryResult(failed) == IF failed THEN "false" ELSE "true"

saveAppState_guestSuffix(updates, fault) ==
  LET suffix == <<>>
      next == Spread(getAppState, updates)
      writeQuiz == NotNullish(next.exitPlanData)
      writeTasks == NotNullish(next.completedTasks) /\ IsObject(next.completedTasks)
      quiz1 == IF writeQuiz /\ fault # STORAGE_QUIZ
                 THEN setItem(quiz, suffix, Item(next.exitPlanData)) ELSE quiz
      failed1 == writeQuiz /\ fault = STORAGE_QUIZ
      tasks1 == IF ~failed1 /\ writeTasks /\ fault # STORAGE_TASKS
                  THEN setItem(tasks, suffix, Item(next.completedTasks)) ELSE tasks
      failed2 == failed1 \/ (writeTasks /\ fault = STORAGE_TASKS)
      failed3 == failed2 \/ fault = STORAGE_APP_STATE
  IN /\ quiz' = quiz1
     /\ tasks' = tasks1
     /\ appState' = IF failed3 THEN appState
                    ELSE setItem(appState, suffix, JSONstringifyObject(next))
     /\ call' = Call("saveAppState", updates, fault, tryResult(failed3), NoError)
     /\ UNCHANGED <<users, current>>

saveAppState(updates, fault) ==
  LET suffix == getStorageSuffix
      next == Spread(getAppState, updates)
      writeQuiz == NotNullish(next.exitPlanData)
      writeTasks == NotNullish(next.completedTasks) /\ IsObject(next.completedTasks)
      quiz1 == IF writeQuiz /\ fault # STORAGE_QUIZ
                 THEN setItem(quiz, suffix, Item(next.exitPlanData)) ELSE quiz
      failed1 == writeQuiz /\ fault = STORAGE_QUIZ
      tasks1 == IF ~failed1 /\ writeTasks /\ fault # STORAGE_TASKS
                  THEN setItem(tasks, suffix, Item(next.completedTasks)) ELSE tasks
      failed2 == failed1 \/ (writeTasks /\ fault = STORAGE_TASKS)
      failed3 == failed2 \/ fault = STORAGE_APP_STATE
  IN /\ quiz' = quiz1
     /\ tasks' = tasks1
     /\ appState' = IF failed3 THEN appState
                    ELSE setItem(appState, suffix, JSONstringifyObject(next))
     /\ call' = Call("saveAppState", updates, fault, tryResult(failed3), NoError)
     /\ UNCHANGED <<users, current>>

saveTasks(tasksObj, fault) ==
  /\ tasks' = IF fault = STORAGE_TASKS THEN tasks
              ELSE setItem(tasks, getStorageSuffix, Item(tasksObj))
  /\ call' = Call("saveTasks", [tasksObj |-> tasksObj], fault,
                  tryResult(fault = STORAGE_TASKS), NoError)
  /\ UNCHANGED <<users, current, quiz, appState>>

\* A text that JSON.parse rejects, under the key base + suffix of the session.
\* The catch clauses of getAppState, getExitPlanData and getTasks are there
\* for such a text; another script of the origin, or the user, can store it.
CorruptText(value) == [parses |-> FALSE, value |-> value]

corruptItem(base) ==
  /\ base \in {STORAGE_QUIZ, STORAGE_TASKS, STORAGE_APP_STATE}
  /\ quiz' = IF base = STORAGE_QUIZ
               THEN setItem(quiz, getStorageSuffix, CorruptText(Undefined)) ELSE quiz
  /\ tasks' = IF base = STORAGE_TASKS
                THEN setItem(tasks, getStorageSuffix, CorruptText(Undefined)) ELSE tasks
  /\ appState' = IF base = STORAGE_APP_STATE
                   THEN setItem(appState, getStorageSuffix, CorruptText(NoState))
                   ELSE appState
  /\ call' = Call("corruptItem", [base |-> base], NoFault, "void", NoError)
  /\ UNCHANGED <<users, current>>

-----------------------------------------------------------------------------
(* Local tenant tip                                                        *)

\* String.prototype.includes
includes(s, sub) ==
  \E i \in 0..(Len(s) - Len(sub)) : SubSeq(s, i + 1, i + Len(sub)) = sub

\* The occupation that getLocalTenantTip tells from the others.
Student == <<"s", "t", "u", "d", "e", "n", "t">>

Ottawa == <<"o", "t", "t", "a", "w", "a">>
Toronto == <<"t", "o", "r", "o", "n", "t", "o">>
Ontario == <<"o", "n", "t", "a", "r", "i", "o">>
Montreal == <<"m", "o", "n", "t", "r", "e", "a", "l">>
Quebec == <<"q", "u", "e", "b", "e", "c">>

\* A tip object is named by its title; "null" names null.
TipStudentsOttawa == "Tip for students in Ottawa"
TipStudentsOntario == "Tip for students in Ontario"
TipStudentsQuebec == "Tip for students in Quebec"
TipStudents == "Tip for students"
TipTenantsOttawa == "Tip for tenants in Ottawa"
TipOntarioTenants == "Tip for Ontario tenants"
NoTip == "null"

getLocalTenantTip_caseSensitive(occupation, cityProvince) ==
  LET city == Or(cityProvince, <<>>)
      occ == toLowerCase(Or(occupation, <<>>))
  IN IF occ = Student
       THEN IF includes(city, Ottawa) THEN TipStudentsOttawa
            ELSE IF includes(city, Toronto) \/ includes(city, Ontario) THEN TipStudentsOntario
            ELSE IF includes(city, Montreal) \/ includes(city, Quebec) THEN TipStudentsQuebec
            ELSE TipStudents
       ELSE IF includes(city, Ottawa) THEN TipTenantsOttawa
       ELSE IF includes(city, Ontario) THEN TipOntarioTenants
       ELSE NoTip

getLocalTenantTip(occupation, cityProvince) ==
  LET city == toLowerCase(Or(cityProvince, <<>>))
      occ == toLowerCase(Or(occupation, <<>>))
  IN IF occ = Student
       THEN IF includes(city, Ottawa) THEN TipStudentsOttawa
            ELSE IF includes(city, Toronto) \/ includes(city, Ontario) THEN TipStudentsOntario
            ELSE IF includes(city, Montreal) \/ includes(city, Quebec) THEN TipStudentsQuebec
            ELSE TipStudents
       ELSE IF includes(city, Ottawa) THEN TipTenantsOttawa
       ELSE IF includes(city, Ontario) THEN TipOntarioTenants
       ELSE NoTip

-----------------------------------------------------------------------------
(* Initial state: an empty localStorage                                    *)

Init ==
  /\ users = <<>>
  /\ current = <<>>
  /\ quiz = NoItems
  /\ tasks = NoItems
  /\ appState = NoItems
  /\ call = Call("init", NoArgs, NoFault, "void", NoError)

-----------------------------------------------------------------------------
(* Inputs                                                                  *)

EmailA == <<"a", "@", "b", ".", "c">>

EmailUpperA == <<"A", "@", "b", ".", "c">>

EmailSpacedA == <<" ", "a", "@", "b", ".", "c", " ">>

EmailPlus == <<"+", "@", "b", ".", "c">>

EmailUnder == <<"_", "@", "b", ".", "c">>

EmailNoAt == <<"a", "b", ".", "c">>

Password8 == <<"p", "a", "s", "s", "w", "o", "r", "d">>

Password7 == <<"p", "a", "s", "s", "w", "o", "r">>

Password9 == <<"p", "a", "s", "s", "w", "0", "r", "d", "!">>

Phone10 == <<"5", "5", "5", "-", "1", "2", "3", "-", "4", "5", "6", "7">>

Phone3 == <<"1", "2", "3">>

NameAl == <<" ", "A", "l", " ">>

Address1 == <<"1", " ", "E", "l", "m">>

\* The instants at which register can run.
MaxTime == 2

Times == 1..MaxTime

NoUpdates ==
  [email |-> Absent, password |-> Absent, name |-> Absent, phone |-> Absent,
   address |-> Absent, occupation |-> Absent]

-----------------------------------------------------------------------------
(* Spec: every operation, on a storage that accepts every write.  Three    *)
(* accounts with one registration form each, so that the quiz, tasks and   *)
(* combined records of several sessions vary.                              *)

AccountEmails == {EmailA, EmailPlus, EmailUnder}

\* The objects passed to saveAppState.
StateUpdates ==
  {[NoState EXCEPT !.exitPlanData = Quiz1],
   [NoState EXCEPT !.completedTasks = Tasks1]}

TaskMaps == {Tasks1}

Register ==
  \E email \in AccountEmails :
    register(email, Password8, <<>>, <<>>, <<>>, <<>>, 1, NoFault)

Login == \E email \in AccountEmails : login(email, Password8, NoFault)

UpdateUserProfile ==
  \E email \in {EmailUnder} :
    updateUserProfile([NoUpdates EXCEPT !.email = email], NoFault)

Logout == logout

SaveAppState == \E updates \in StateUpdates : saveAppState(updates, NoFault)

SaveTasks == \E tasksObj \in TaskMaps : saveTasks(tasksObj, NoFault)

Next ==
  \/ Register
  \/ Login
  \/ UpdateUserProfile
  \/ Logout
  \/ SaveAppState
  \/ SaveTasks

Spec == Init /\ [][Next]_vars

-----------------------------------------------------------------------------
(* SpecAuth: the user directory and the session, with the registration,    *)
(* login and profile forms filled in every way that matters.               *)

\* email, password, name, phone, address, occupation
RegisterForms ==
  {<<EmailUpperA, Password8, <<>>, Phone10, Address1, Student>>,
   <<EmailPlus, Password8, <<>>, Phone10, Address1, Student>>,
   <<EmailSpacedA, Password7, <<>>, Phone3, <<>>, <<>> >>,
   <<EmailNoAt, Password8, <<>>, <<>>, <<>>, <<>> >>,
   <<EmailUpperA, Password7, <<>>, <<>>, <<>>, <<>> >>,
   <<EmailPlus, Password8, NameAl, Phone3, <<>>, <<>> >>}

\* email, password
LoginForms ==
  {<<EmailA, Password8>>,
   <<EmailSpacedA, Password8>>,
   <<EmailUpperA, Password9>>,
   <<EmailPlus, Password8>>,
   <<EmailPlus, Password9>>,
   <<EmailUnder, Password8>>}

\* The profile forms submitted to updateUserProfile.
ProfileUpdates ==
  {[NoUpdates EXCEPT !.name = NameAl],
   [NoUpdates EXCEPT !.email = EmailUpperA],
   [NoUpdates EXCEPT !.email = EmailPlus],
   [NoUpdates EXCEPT !.email = EmailNoAt],
   [NoUpdates EXCEPT !.password = Password9],
   [NoUpdates EXCEPT !.password = Password7, !.name = NameAl],
   [NoUpdates EXCEPT !.email = EmailPlus, !.phone = Phone3, !.name = NameAl],
   [NoUpdates EXCEPT !.email = EmailPlus, !.name = NameAl, !.phone = Phone10,
                     !.occupation = Student, !.password = Password9]}

AuthRegister ==
  \E form \in RegisterForms, now \in Times :
    register(form[1], form[2], form[3], form[4], form[5], form[6], now, NoFault)

AuthLogin == \E form \in LoginForms : login(form[1], form[2], NoFault)

AuthUpdateUserProfile ==
  \E updates \in ProfileUpdates : updateUserProfile(updates, NoFault)

AuthLogout == logout

NextAuth ==
  \/ AuthRegister
  \/ AuthLogin
  \/ AuthUpdateUserProfile
  \/ AuthLogout

SpecAuth == Init /\ [][NextAuth]_vars

-----------------------------------------------------------------------------
(* SpecQuota: every operation, on a storage that may reject a write.  The  *)
(* fault of a call names the key whose setItem the storage rejects.        *)

QuotaEmails == {EmailA}

QuotaRegister ==
  \E email \in QuotaEmails, fault \in {NoFault, STORAGE_USERS, STORAGE_CURRENT} :
    register(email, Password8, <<>>, <<>>, <<>>, <<>>, 1, fault)

QuotaLogin ==
  \E email \in QuotaEmails, fault \in {NoFault, STORAGE_CURRENT} :
    login(email, Password8, fault)

QuotaUpdateUserProfile ==
  \E updates \in {[NoUpdates EXCEPT !.name = NameAl]},
     fault \in {NoFault, STORAGE_USERS, STORAGE_CURRENT} :
    updateUserProfile(updates, fault)

QuotaLogout == logout

QuotaStateUpdates ==
  {[NoState EXCEPT !.exitPlanData = Quiz1],
   [NoState EXCEPT !.completedTasks = Tasks1]}

QuotaSaveAppState ==
  \E updates \in QuotaStateUpdates,
     fault \in {NoFault, STORAGE_QUIZ, STORAGE_TASKS, STORAGE_APP_STATE} :
    saveAppState(updates, fault)

QuotaSaveTasks ==
  \E tasksObj \in TaskMaps, fault \in {NoFault, STORAGE_TASKS} :
    saveTasks(tasksObj, fault)

NextQuota ==
  \/ QuotaRegister
  \/ QuotaLogin
  \/ QuotaUpdateUserProfile
  \/ QuotaLogout
  \/ QuotaSaveAppState
  \/ QuotaSaveTasks

SpecQuota == Init /\ [][NextQuota]_vars

-----------------------------------------------------------------------------
(* SpecCorrupt: the quiz, tasks and combined records of one session, which *)
(* the program writes and which may also come to hold a text that does not *)
(* parse.                                                                  *)

CorruptSaveAppState == \E updates \in StateUpdates : saveAppState(updates, NoFault)

\* saveTasks(undefined) stores the text "undefined".
CorruptSaveTasks == \E tasksObj \in TaskMaps \cup {Undefined} : saveTasks(tasksObj, NoFault)

CorruptItem ==
  \E base \in {STORAGE_QUIZ, STORAGE_TASKS, STORAGE_APP_STATE} : corruptItem(base)

CorruptRegister ==
  register(EmailA, Password8, <<>>, <<>>, <<>>, <<>>, 1, NoFault)

CorruptLogout == logout

NextCorrupt ==
  \/ CorruptSaveAppState
  \/ CorruptSaveTasks
  \/ CorruptItem
  \/ CorruptRegister
  \/ CorruptLogout

SpecCorrupt == Init /\ [][NextCorrupt]_vars

-----------------------------------------------------------------------------
(* SpecTip: getLocalTenantTip applied to occupations and cities            *)

Occupations ==
  {Student, Undefined, Null,
   <<"S", "t", "u", "d", "e", "n", "t">>,
   <<"S", "T", "U", "D", "E", "N", "T">>,
   <<"t", "e", "a", "c", "h", "e", "r">>,
   <<"r", "e", "t", "i", "r", "e", "d">>,
   <<>>}

Cities ==
  {Undefined, Null,
   <<"O", "t", "t", "a", "w", "a", ",", " ", "O", "N">>,
   <<"o", "t", "t", "a", "w", "a">>,
   <<"O", "T", "T", "A", "W", "A">>,
   <<"o", "T", "T", "a", "W", "a">>,
   <<"N", "o", "r", "t", "h", " ", "O", "t", "t", "a", "w", "a">>,
   <<"O", "t", "t", "a", "w">>,
   <<"O", "t", "t", "a", " ", "w", "a">>,
   <<"T", "o", "r", "o", "n", "t", "o", ",", " ", "O", "N">>,
   <<"t", "o", "r", "o", "n", "t", "o">>,
   <<"O", "n", "t", "a", "r", "i", "o">>,
   <<"O", "N", "T", "A", "R", "I", "O">>,
   <<"M", "o", "n", "t", "r", "e", "a", "l", ",", " ", "Q", "C">>,
   <<"m", "o", "n", "t", "r", "e", "a", "l">>,
   <<"Q", "u", "e", "b", "e", "c", " ", "C", "i", "t", "y">>,
   <<"Q", "U", "E", "B", "E", "C">>,
   <<"V", "a", "n", "c", "o", "u", "v", "e", "r", ",", " ", "B", "C">>,
   <<"C", "a", "l", "g", "a", "r", "y">>,
   <<"H", "a", "l", "i", "f", "a", "x">>,
   <<>>}

GetLocalTenantTip ==
  \E occupation \in Occupations, cityProvince \in Cities :
    /\ call' = Call("getLocalTenantTip",
                    [occupation |-> occupation, cityProvince |-> cityProvince],
                    NoFault, getLocalTenantTip(occupation, cityProvince), NoError)
    /\ UNCHANGED <<users, current, quiz, tasks, appState>>

NextTip == GetLocalTenantTip

SpecTip == Init /\ [][NextTip]_vars

-----------------------------------------------------------------------------
(* SpecStale: one account that changes its email, under a quota that may   *)
(* reject the write of the directory or of the session.                    *)

StaleRegister ==
  \E fault \in {NoFault, STORAGE_CURRENT} :
    register(EmailA, Password8, <<>>, <<>>, <<>>, <<>>, 1, fault)

StaleLogin ==
  \E email \in {EmailA, EmailUnder}, fault \in {NoFault, STORAGE_CURRENT} :
    login(email, Password8, fault)

StaleProfileUpdates ==
  {[NoUpdates EXCEPT !.name = NameAl],
   [NoUpdates EXCEPT !.email = EmailUnder],
   [NoUpdates EXCEPT !.email = EmailPlus],
   [NoUpdates EXCEPT !.password = Password7],
   [NoUpdates EXCEPT !.email = EmailPlus, !.phone = Phone3]}

StaleUpdateUserProfile ==
  \E updates \in StaleProfileUpdates,
     fault \in {NoFault, STORAGE_USERS, STORAGE_CURRENT} :
    updateUserProfile(updates, fault)

StaleLogout == logout

NextStale ==
  \/ StaleRegister
  \/ StaleLogin
  \/ StaleUpdateUserProfile
  \/ StaleLogout

SpecStale == Init /\ [][NextStale]_vars

-----------------------------------------------------------------------------
(* Properties                                                              *)

\* c and d are the same character up to letter case.
SameLetter(c, d) ==
  \/ c = d
  \/ \E i \in DOMAIN UpperCase : {c, d} = {UpperCase[i], LowerCase[i]}

\* n is e without its leading and trailing spaces and with every letter in
\* lower case.
IsNormalFormOf(n, e) ==
  \E pre \in 0..Len(e) :
    /\ pre + Len(n) <= Len(e)
    /\ \A i \in 1..Len(e) : (i <= pre \/ i > pre + Len(n)) => e[i] = " "
    /\ \A i \in 1..Len(n) : SameLetter(n[i], e[pre + i]) /\ n[i] \notin UpperCaseLetters
    /\ n # <<>> => (n[1] # " " /\ n[Len(n)] # " ")

\* The session that login establishes for the account b.
SessionFor(b) == <<JSONstringifyObject(SessionOf(b, <<>>, <<>>, <<>>, <<>>))>>

\* What getAppState(), getExitPlanData() and getTasks() return while b is the
\* active session, on the records q, t and a.
ReadsAs(b, q, t, a) ==
  <<getAppStateOf(SessionFor(b), q, t, a),
    getExitPlanDataOf(SessionFor(b), q),
    getTasksOf(SessionFor(b), t)>>

\* C1: after saveAppState({exitPlanData: X}) has returned true, getAppState()
\* under the same session returns isPlanGenerated = true and exitPlanData = X.
C1_RoundTrip ==
  (/\ call.op = "saveAppState"
   /\ call.result = "true"
   /\ IsObject(call.args.exitPlanData))
  => /\ getAppState.exitPlanData = call.args.exitPlanData
     /\ getAppState.isPlanGenerated = True

\* C2: in every reachable state, a state returned by getAppState() whose
\* exitPlanData is present has isPlanGenerated = true, and so has every
\* combined record in the storage.
C2_PlanGeneratedInvariant ==
  /\ NotNullish(getAppState.exitPlanData) => getAppState.isPlanGenerated = True
  /\ \A suffix \in DOMAIN appState :
       (appState[suffix].parses /\ NotNullish(appState[suffix].value.exitPlanData))
       => appState[suffix].value.isPlanGenerated = True

\* C3: a saveAppState or saveTasks made while account A is the session never
\* changes what getAppState(), getExitPlanData() and getTasks() return for
\* another registered account B.
C3_SessionIsolation ==
  [][(/\ call'.op \in {"saveAppState", "saveTasks"}
      /\ getCurrentUser # <<>>)
     => \A b \in DOMAIN getUsers \ {getCurrentUser[1].email} :
          ReadsAs(b, quiz', tasks', appState') = ReadsAs(b, quiz, tasks, appState)]_vars

\* The phone is empty or has 10 to 15 digits.
PhoneIsAcceptable(phone) ==
  phone = <<>> \/ (DigitCount(phone) >= 10 /\ DigitCount(phone) <= 15)

\* C4: register with an email that passes the pattern check, a password of at
\* least 8 characters and an acceptable phone, when the directory has no record
\* under the normalized email, returns success, stores a record under the
\* normalized email and makes the session that email's, logged in.
C4_RegisterSucceeds ==
  [][(/\ call'.op = "register"
      /\ isValidEmail(call'.args.email)
      /\ Len(call'.args.password) >= 8
      /\ PhoneIsAcceptable(call'.args.phone)
      /\ ~ \E n \in DOMAIN getUsers : IsNormalFormOf(n, call'.args.email))
     => /\ call'.result = "success"
        /\ \E n \in DOMAIN getUsersOf(users') :
             /\ IsNormalFormOf(n, call'.args.email)
             /\ getUsersOf(users')[n].email = n
             /\ getUsersOf(users')[n].password = call'.args.password
             /\ getCurrentUserOf(current') # <<>>
             /\ getCurrentUserOf(current')[1].email = n
             /\ getCurrentUserOf(current')[1].isLoggedIn = True
        /\ \A n \in DOMAIN getUsers :
             n \in DOMAIN getUsersOf(users') /\ getUsersOf(users')[n] = getUsers[n]]_vars

\* A register succeeded for an email in upper case while another account's
\* session was active.
C4_Witness ==
  /\ call.op = "register"
  /\ call.result = "success"
  /\ call.args.email = EmailUpperA
  /\ getCurrentUserOf(call.caller) # <<>>
  /\ getCurrentUser[1].email = EmailA

\* C5: while the directory holds a record under the normalized form of an
\* email, register with that email, in any letter case and with any
\* surrounding white space and any other arguments, fails with the
\* duplicate-email error and changes neither the directory nor the session.
C5_DuplicateEmail ==
  [][(/\ call'.op = "register"
      /\ \E n \in DOMAIN getUsers : IsNormalFormOf(n, call'.args.email))
     => /\ call'.result = "failure"
        /\ call'.error = ErrDuplicateEmail
        /\ users' = users
        /\ current' = current]_vars

\* A register with surrounding spaces, a short password and a bad phone was
\* refused as a duplicate.
C5_Witness ==
  /\ call.op = "register"
  /\ call.error = ErrDuplicateEmail
  /\ call.args.email = EmailSpacedA
  /\ call.args.password = Password7
  /\ call.args.phone = Phone3

\* C6: login succeeds exactly when the directory holds a record under the
\* normalized email whose stored password is the given one, and then the
\* session becomes that email's; without a record it fails with the
\* unknown-email error, with another password with the incorrect-password
\* error.  A successful updateUserProfile with a new password of at least 8
\* characters makes the new password the stored one.
C6_Login ==
  [][/\ call'.op = "login" =>
          LET hit == {n \in DOMAIN getUsers : IsNormalFormOf(n, call'.args.email)}
              ok == \E n \in hit : getUsers[n].password = call'.args.password
          IN /\ call'.result = "success" <=> ok
             /\ ok => /\ getCurrentUserOf(current') # <<>>
                      /\ getCurrentUserOf(current')[1].email \in hit
                      /\ getCurrentUserOf(current')[1].isLoggedIn = True
             /\ ~ok => /\ call'.result = "failure"
                       /\ call'.error = IF hit = {} THEN ErrUnknownEmail
                                        ELSE ErrWrongPassword
                       /\ current' = current
             /\ users' = users
     /\ (/\ call'.op = "updateUserProfile"
         /\ call'.result = "success"
         /\ call'.args.password # Absent)
        => LET key == getCurrentUserOf(current')[1].email
               old == getCurrentUser[1].email
           IN getUsersOf(users')[key].password =
                IF Len(call'.args.password) >= 8 THEN call'.args.password
                ELSE getUsers[old].password]_vars

\* A login succeeded with a password that only a profile update can set.
C6_Witness ==
  /\ call.op = "login"
  /\ call.result = "success"
  /\ call.args.password = Password9
  /\ call.args.email = EmailUpperA

\* C7: updateUserProfile by a logged-in user with a new email that is the key
\* of another record fails with the email-taken error and changes neither
\* the directory nor the session.
C7_EmailTaken ==
  [][(/\ call'.op = "updateUserProfile"
      /\ getCurrentUser # <<>>
      /\ call'.args.email # Absent
      /\ \E n \in DOMAIN getUsers \ {getCurrentUser[1].email} :
           IsNormalFormOf(n, call'.args.email))
     => /\ call'.result = "failure"
        /\ call'.error = ErrEmailTaken
        /\ users' = users
        /\ current' = current]_vars

\* An update that asked for a taken email together with a new name, phone,
\* occupation and password was refused.
C7_Witness ==
  /\ call.op = "updateUserProfile"
  /\ call.error = ErrEmailTaken
  /\ call.args.name = NameAl
  /\ call.args.password = Password9
  /\ Cardinality(DOMAIN getUsers) = 2

\* The value updateUserProfile is asked to store for a text field.
IsRequested(stored, requested) ==
  \E pre \in 0..Len(requested) :
    /\ pre + Len(stored) <= Len(requested)
    /\ \A i \in 1..Len(requested) :
         (i <= pre \/ i > pre + Len(stored)) => requested[i] = " "
    /\ \A i \in 1..Len(stored) : stored[i] = requested[pre + i]
    /\ stored # <<>> => (stored[1] # " " /\ stored[Len(stored)] # " ")

\* C8: a successful updateUserProfile whose email is a free address other
\* than the session's is a rename: the old key is gone, the new key holds the
\* old record's password (unless a new one of at least 8 characters was
\* given) and registeredAt and the requested fields, the number of records
\* is unchanged, the session names the new email and mirrors the record, and
\* login with the old email fails with the unknown-email error.
C8_Rename ==
  [][(/\ call'.op = "updateUserProfile"
      /\ call'.result = "success"
      /\ call'.args.email # Absent
      /\ ~IsNormalFormOf(getCurrentUser[1].email, call'.args.email))
     => LET old == getCurrentUser[1].email
            dir == getUsers
            dir2 == getUsersOf(users')
            session == getCurrentUserOf(current')
            a == call'.args
        IN /\ old \notin DOMAIN dir2
           /\ Cardinality(DOMAIN dir2) = Cardinality(DOMAIN dir)
           /\ \E n \in DOMAIN dir2 \ DOMAIN dir :
                /\ IsNormalFormOf(n, a.email)
                /\ dir2[n].email = n
                /\ dir2[n].registeredAt = dir[old].registeredAt
                /\ dir2[n].password =
                     IF a.password # Absent /\ Len(a.password) >= 8
                       THEN a.password ELSE dir[old].password
                /\ IF a.name = Absent THEN dir2[n].name = dir[old].name
                   ELSE \/ IsRequested(dir2[n].name, a.name) /\ dir2[n].name # <<>>
                        \/ IsRequested(<<>>, a.name) /\ dir2[n].name = DefaultName
                /\ \A f \in {"phone", "address", "occupation"} :
                     IF a[f] = Absent THEN dir2[n][f] = dir[old][f]
                     ELSE IsRequested(dir2[n][f], a[f])
                /\ session # <<>>
                /\ session[1].email = n
                /\ \A f \in {"name", "phone", "address", "occupation"} :
                     session[1][f] = dir2[n][f]
                /\ \A m \in DOMAIN dir \ {old} : m \in DOMAIN dir2 /\ dir2[m] = dir[m]
           /\ loginError(dir2, old, dir[old].password) = ErrUnknownEmail]_vars

\* The account a@b.c, registered at the second instant, was renamed to +@b.c
\* with a new name and password while another account existed.
C8_Witness ==
  /\ call.op = "updateUserProfile"
  /\ call.result = "success"
  /\ call.args.email = EmailPlus
  /\ call.args.password = Password9
  /\ getCurrentUserOf(call.caller)[1].email = EmailA
  /\ getCurrentUser[1].email = EmailPlus
  /\ getUsers[EmailPlus].registeredAt = toISOString(2)

\* C9: logout returns normally and removes the session record, so that
\* getCurrentUser() returns nothing and the storage suffix is empty, and it
\* changes no user, quiz, tasks or combined record; and while there is no
\* session, only a successful register or login creates one.
C9_Logout ==
  [][/\ call'.op = "logout"
          => /\ call'.result = "void"
             /\ current' = <<>>
             /\ getCurrentUserOf(current') = <<>>
             /\ getStorageSuffixOf(current') = <<>>
             /\ users' = users
             /\ quiz' = quiz
             /\ tasks' = tasks
             /\ appState' = appState
     /\ (getCurrentUser = <<>> /\ getCurrentUserOf(current') # <<>>)
          => /\ call'.op \in {"register", "login"}
             /\ call'.result = "success"
     /\ (getCurrentUser = <<>> /\ getCurrentUserOf(current') = <<>>)
          => getStorageSuffixOf(current') = <<>>]_vars

\* A logout ended a session that had stored its quiz, tasks and combined
\* records.
C9_Witness ==
  /\ call.op = "logout"
  /\ getCurrentUserOf(call.caller) # <<>>
  /\ getCurrentUser = <<>>
  /\ getStorageSuffixOf(call.caller) \in DOMAIN quiz
  /\ getStorageSuffixOf(call.caller) \in DOMAIN tasks
  /\ getStorageSuffixOf(call.caller) \in DOMAIN appState

\* saveAppState(updates) reaches the setItem of the quiz record.
WritesQuiz(updates) ==
  IF updates.exitPlanData # Absent THEN NotNullish(updates.exitPlanData)
  ELSE NotNullish(getAppState.exitPlanData)

\* saveAppState(updates) reaches the setItem of the tasks record.
WritesTasks(updates) ==
  IF updates.completedTasks # Absent THEN IsObject(updates.completedTasks)
  ELSE IsObject(getAppState.completedTasks)

\* C10: saveAppState never throws; it returns false when the storage rejects
\* one of the writes it makes, and true when the storage accepts them all.
C10_SaveAppStateResult ==
  [][call'.op = "saveAppState" =>
       LET rejected ==
             \/ call'.fault = STORAGE_QUIZ /\ WritesQuiz(call'.args)
             \/ call'.fault = STORAGE_TASKS /\ WritesTasks(call'.args)
             \/ call'.fault = STORAGE_APP_STATE
       IN /\ call'.result \in {"true", "false"}
          /\ call'.result = "false" <=> rejected
          /\ call'.result = "true" =>
               /\ getStorageSuffix \in DOMAIN appState'
               /\ WritesQuiz(call'.args) => getStorageSuffix \in DOMAIN quiz'
               /\ WritesTasks(call'.args) => getStorageSuffix \in DOMAIN tasks']_vars

\* saveAppState returned false because the storage rejected the combined
\* record after it had accepted the quiz record.
C10_Witness ==
  /\ call.op = "saveAppState"
  /\ call.result = "false"
  /\ call.fault = STORAGE_APP_STATE
  /\ getStorageSuffix \in DOMAIN quiz
  /\ getStorageSuffix \notin DOMAIN appState

\* The items of a store that parse.
Parsable(store) == [s \in {x \in DOMAIN store : store[x].parses} |-> store[s]]

\* C11: getAppState() replaces a stored text that does not parse by the
\* default of its own key only: it returns what it would return if that text
\* were not stored.  In particular, with a corrupt combined record, a quiz
\* record X and a tasks record T, it returns exitPlanData = X,
\* isPlanGenerated = true and completedTasks = T.
C11_DegradesPerKey ==
  /\ getAppState =
       getAppStateOf(current, Parsable(quiz), Parsable(tasks), Parsable(appState))
  /\ LET suffix == getStorageSuffix
     IN (/\ suffix \in DOMAIN appState /\ ~appState[suffix].parses
         /\ suffix \in DOMAIN quiz /\ quiz[suffix].parses
         /\ suffix \in DOMAIN tasks /\ tasks[suffix].parses
         /\ IsObject(quiz[suffix].value) /\ IsObject(tasks[suffix].value))
        => /\ getAppState.exitPlanData = quiz[suffix].value
           /\ getAppState.isPlanGenerated = True
           /\ getAppState.completedTasks = tasks[suffix].value

\* The word occurs in the text, in any letter case.
ContainsAnyCase(text, word) ==
  \E i \in 0..(Len(text) - Len(word)) :
    \A j \in 1..Len(word) : SameLetter(text[i + j], word[j])

\* The city matches none of Ottawa, Toronto, Ontario, Montreal, Quebec.
MatchesNoCity(cityProvince) ==
  \A word \in {Ottawa, Toronto, Ontario, Montreal, Quebec} :
    ~ContainsAnyCase(cityProvince, word)

TipCall == call.op = "getLocalTenantTip"

\* C12 as stated: getLocalTenantTip('student', city) returns the
\* Ottawa-student tip whenever city contains "ottawa" in any letter case, and
\* getLocalTenantTip returns null for every pair whose city matches none of
\* the five city names, whatever the occupation.
C12_TipAsStated ==
  TipCall =>
    /\ (call.args.occupation = Student /\ ContainsAnyCase(call.args.cityProvince, Ottawa))
         => call.result = TipStudentsOttawa
    /\ MatchesNoCity(call.args.cityProvince) => call.result = NoTip

\* C12 amended: the Ottawa-student tip as stated; a pair whose city matches
\* none of the five city names gets the general student tip when the
\* occupation is "student" in any letter case, and null otherwise.
C12_Tip ==
  TipCall =>
    /\ (call.args.occupation = Student /\ ContainsAnyCase(call.args.cityProvince, Ottawa))
         => call.result = TipStudentsOttawa
    /\ MatchesNoCity(call.args.cityProvince)
         => call.result =
              IF /\ Len(call.args.occupation) = Len(Student)
                 /\ ContainsAnyCase(call.args.occupation, Student)
                THEN TipStudents ELSE NoTip

C12_Witness ==
  /\ TipCall
  /\ call.args.occupation = Student
  /\ MatchesNoCity(call.args.cityProvince)
  /\ Len(call.args.cityProvince) > 1
  /\ call.result = TipStudents

\* What the standalone records of the session give for a field.
Standalone(f) ==
  LET suffix == getStorageSuffix
  IN CASE f = "isPlanGenerated" -> IF suffix \in DOMAIN quiz THEN True ELSE False
       [] f = "exitPlanData" -> IF suffix \in DOMAIN quiz THEN quiz[suffix].value ELSE Null
       [] f = "completedTasks" ->
            IF suffix \in DOMAIN tasks THEN tasks[suffix].value ELSE EmptyObject

\* C13: for each of isPlanGenerated, exitPlanData and completedTasks,
\* getAppState() returns the value of the combined record when the combined
\* record has the field, and otherwise what the standalone records give.
C13_ReadPrecedence ==
  LET suffix == getStorageSuffix
      state == IF suffix \in DOMAIN appState THEN appState[suffix].value ELSE NoState
  IN \A f \in DOMAIN NoState :
       getAppState[f] = IF state[f] # Absent THEN state[f] ELSE Standalone(f)

\* The combined record says false and null where the standalone record has a
\* plan, and the combined record wins.
C13_Witness ==
  LET suffix == getStorageSuffix
  IN /\ suffix \in DOMAIN appState /\ suffix \in DOMAIN quiz
     /\ appState[suffix].value.isPlanGenerated = False
     /\ getAppState.isPlanGenerated = False

\* C14: after any sequence of saveAppState and saveTasks calls made under one
\* session, getAppState().completedTasks equals getTasks() and
\* getAppState().exitPlanData equals getExitPlanData().  With an empty
\* directory nobody has registered, so every call so far ran under the one
\* session of the guest.
C14_SingleSourceOfTruth ==
  users = <<>> =>
    /\ getAppState.completedTasks = getTasks
    /\ getAppState.exitPlanData = getExitPlanData

\* The records of a store under the suffixes other than suffix are the same
\* before and after.
OthersUnchanged(before, after, suffix) ==
  /\ DOMAIN before \ {suffix} = DOMAIN after \ {suffix}
  /\ \A s \in DOMAIN before \ {suffix} : after[s] = before[s]

StoredUnder(suffix) ==
  LET state == IF suffix \in DOMAIN appState THEN appState[suffix].value ELSE NoState
  IN [f \in DOMAIN NoState |->
        IF state[f] # Absent THEN state[f]
        ELSE CASE f = "isPlanGenerated" -> IF suffix \in DOMAIN quiz THEN True ELSE False
               [] f = "exitPlanData" ->
                    IF suffix \in DOMAIN quiz THEN quiz[suffix].value ELSE Null
               [] f = "completedTasks" ->
                    IF suffix \in DOMAIN tasks THEN tasks[suffix].value ELSE EmptyObject]

SuffixOfEmail(email) == <<"_">> \o sanitize(email)

\* The step is a successful updateUserProfile that changes the session's email.
RenameStep ==
  /\ call'.op = "updateUserProfile" /\ call'.result = "success"
  /\ current # <<>> /\ current' # <<>>
  /\ current'[1].value.email # current[1].value.email

\* C16: a successful rename of the session's email from A to B changes no
\* quiz, tasks or combined record, and getAppState() then returns what is
\* stored under the suffix of B, the defaults when nothing is; a successful
\* register or login, with the email A among others, returns what is stored
\* under the suffix of its email, whoever stored it.
C16_StateFollowsEmail ==
  [][/\ RenameStep =>
          /\ quiz' = quiz /\ tasks' = tasks /\ appState' = appState
          /\ getAppState' = StoredUnder(SuffixOfEmail(current'[1].value.email))
          /\ ((\A store \in {quiz, tasks, appState} :
                 SuffixOfEmail(current'[1].value.email) \notin DOMAIN store)
               => getAppState' = DefaultState)
     /\ (call'.op \in {"register", "login"} /\ call'.result = "success") =>
          /\ quiz' = quiz /\ tasks' = tasks /\ appState' = appState
          /\ getAppState' = StoredUnder(SuffixOfEmail(current'[1].value.email))]_vars

\* After a rename the records of the old email are still there, and the
\* session reads the defaults of the new one.
C16_Witness ==
  /\ call.op = "updateUserProfile" /\ call.result = "success"
  /\ call.caller # <<>> /\ current # <<>>
  /\ call.caller[1].value.email # current[1].value.email
  /\ SuffixOfEmail(call.caller[1].value.email) \in DOMAIN appState
  /\ Truthy(StoredUnder(SuffixOfEmail(call.caller[1].value.email)).exitPlanData)
  /\ getAppState = DefaultState

\* C17: register, login and updateUserProfile never raise: whatever the
\* validation or the storage does (a rejected write, a stored value that does
\* not parse), the call returns a result object.
C17_NeverRaises ==
  call.op \in {"register", "login", "updateUserProfile"} => call.result # "throw"

\* C18: in every state that whole calls of register, login, updateUserProfile
\* and logout reach, a session that exists has a record in the directory
\* under its email, with the same name, phone, address and occupation (so
\* that updateUserProfile always finds the record of the session).
C18_SessionMatchesDirectory ==
  current # <<>> =>
    LET session == current[1].value
        dir == IF users = <<>> THEN NoUsers ELSE users[1].value
    IN /\ session.email \in DOMAIN dir
       /\ \A f \in {"name", "phone", "address", "occupation"} :
            session[f] = dir[session.email][f]

\* The text has the shape local@domain.tld: no white space, one "@" with
\* something before it, and after it a "." with something on both sides.
IsEmailShaped(text) ==
  /\ \A i \in DOMAIN text : text[i] \notin WhiteSpace
  /\ \E i \in DOMAIN text :
       /\ i > 1
       /\ text[i] = "@"
       /\ \A k \in DOMAIN text : text[k] = "@" => k = i
       /\ \E j \in DOMAIN text : j > i + 1 /\ j < Len(text) /\ text[j] = "."

\* Every record of the directory is stored under its own email, which is in
\* lower case and shaped as an email, and has a password of 8 characters or
\* more.
WellFormedDirectory ==
  LET dir == IF users = <<>> THEN NoUsers ELSE users[1].value
  IN \A key \in DOMAIN dir :
       /\ dir[key].email = key
       /\ \A i \in DOMAIN key : key[i] \notin UpperCaseLetters
       /\ IsEmailShaped(key)
       /\ Len(dir[key].password) >= 8

\* updateUserProfile is called with a password shorter than 8 characters.
ShortPasswordStep ==
  /\ call'.op = "updateUserProfile"
  /\ current # <<>>
  /\ call'.args.password \notin {Absent, Undefined, Null}
  /\ Len(call'.args.password) < 8

\* C19: the directory is well formed in every state, and updateUserProfile
\* with a password shorter than 8 characters, its other fields being valid,
\* returns success when it returns, and leaves the stored password as it was.
C19_DirectoryWellFormed ==
  [][/\ WellFormedDirectory'
     /\ (/\ ShortPasswordStep
         /\ call'.args.email = Absent /\ call'.args.phone = Absent
         /\ call'.result # "throw")
          => call'.result = "success"
     /\ (ShortPasswordStep /\ call'.result = "success")
          => users'[1].value[current'[1].value.email].password
               = users[1].value[current[1].value.email].password]_vars

\* C20: a register, login or updateUserProfile call that returns
\* {success: false} leaves the stored directory and the stored session as
\* they were; so an updateUserProfile that asks for a free new email and an
\* invalid phone number renames nothing and changes no name.
C20_FailureLeavesStateUntouched ==
  [][(/\ call'.op \in {"register", "login", "updateUserProfile"}
      /\ call'.result = "failure")
       => users' = users /\ current' = current]_vars

\* updateUserProfile has refused a free new email that came with an invalid
\* phone number and a new name.
C20_Witness ==
  /\ call.op = "updateUserProfile" /\ call.result = "failure"
  /\ call.error = ErrInvalidPhoneUpdate
  /\ call.args.email = EmailPlus /\ call.args.name = NameAl
  /\ call.args.phone = Phone3
  /\ EmailPlus \notin DOMAIN users[1].value
  /\ current # <<>> /\ current = call.caller
  /\ current[1].value.email \in DOMAIN users[1].value
  /\ users[1].value[current[1].value.email].name # <<"A", "l">>

====
